---- MODULE Spec2Model ----
(***************************************************************************)
(* RootFinder (src/groebner/root_finder.py): the quotient ring C[x,y]/I    *)
(* as a vector space.  The model covers construction (makeVectorBasis),    *)
(* the division loop reduce_poly, coordinateVector and multOperatorMatrix. *)
(*                                                                         *)
(* Polynomials are in two variables.  A monomial is its exponent tuple     *)
(* <<a, b>>; a polynomial is the function from its monomials with nonzero  *)
(* coefficient to those coefficients (the nonzero entries of the numpy     *)
(* coefficient array).  Coefficients are small integers and every basis    *)
(* polynomial handed to the constructor is monic, so the float division    *)
(* lead_coeff/lead_coeff and the subtraction are exact and the 1e-10       *)
(* snapping removes exactly the zero coefficients.                         *)
(***************************************************************************)
EXTENDS Integers, Sequences, FiniteSets, TLC

\* Largest exponent of a variable in a leading term of a constructed basis.
MaxExp == 2
\* Largest total degree of a polynomial handed to reduce_poly or coordinateVector.
MaxArgDeg == 2

VARIABLES
    GB,                    \* self.GB, the list the division loop walks (old_polys)
    vectorBasis,           \* self.vectorBasis
    vectorSpaceDimension,  \* self.vectorSpaceDimension
    eqByValue,             \* MultiPower.__ne__ compares values (TRUE) or objects
    pc,                    \* "new", "idle", "reduce"
    caller,                \* who called the division loop: "user" or "matrix"
    arg,                   \* the polynomial handed to the operation (first call of a repeat)
    poly,                  \* reduce_poly: the working polynomial
    alias,                 \* k > 0: poly is the object GB[k]; 0: an object of its own
    change,                \* reduce_poly: change
    j,                     \* reduce_poly: position of `other` in the for loop
    again,                 \* the running/last reduce call was handed the last result
    prev,                  \* the result it was handed
    i,                     \* multOperatorMatrix: column index
    matrix,                \* multOperatorMatrix: the matrix under construction
    cvec,                  \* last returned coordinate vector
    err,                   \* failure of the last operation, "none" if it returned
    lastOp                 \* the operation that returned (or failed) last

vars == <<GB, vectorBasis, vectorSpaceDimension, eqByValue, pc, caller, arg, poly,
          alias, change, j, again, prev, i, matrix, cvec, err, lastOp>>

-----------------------------------------------------------------------------
(* The polynomial objects (MultiPower), as the operations RootFinder uses.  *)

\* lead_term of the empty polynomial
None == <<>>

Zero == [m \in {} |-> 0]

Deg(m) == m[1] + m[2]

\* the term order: graded, ties broken by the exponent of the first variable
Less(m, n) == Deg(m) < Deg(n) \/ (Deg(m) = Deg(n) /\ m[1] < n[1])

Coef(p, m) == IF m \in DOMAIN p THEN p[m] ELSE 0

lead_term(p) ==
    IF DOMAIN p = {} THEN None
    ELSE CHOOSE m \in DOMAIN p : \A n \in DOMAIN p : n = m \/ Less(n, m)

lead_coeff(p) == p[lead_term(p)]

MonAdd(m, n) == <<m[1] + n[1], m[2] + n[2]>>

\* np.subtract on two exponent tuples
MonSub(m, n) == <<m[1] - n[1], m[2] - n[2]>>

mon_mult(p, m) ==
    [n \in {MonAdd(k, m) : k \in DOMAIN p} |-> p[MonSub(n, m)]]

RECURSIVE SortDesc(_)
SortDesc(S) ==
    IF S = {} THEN <<>>
    ELSE LET top == CHOOSE m \in S : \A n \in S : n = m \/ Less(n, m)
         IN <<top>> \o SortDesc(S \ {top})

\* monomials with nonzero coefficient, largest first
monomialList(p) == SortDesc(DOMAIN p)

Reverse(s) == [k \in 1..Len(s) |-> s[Len(s) + 1 - k]]

-----------------------------------------------------------------------------
(* makeVectorBasis and divides                                              *)

DividesStrict(mon1, mon2) == \A k \in DOMAIN mon1 : mon2[k] - mon1[k] > 0

divides(mon1, mon2) == \A k \in DOMAIN mon1 : mon2[k] - mon1[k] >= 0

LT_G(basis) == [k \in 1..Len(basis) |-> lead_term(basis[k])]

SeqMax(s) == CHOOSE x \in {s[k] : k \in DOMAIN s} : \A k \in DOMAIN s : s[k] <= x

\* zip(*LT_G): one tuple per variable, none when LT_G is empty
Zip(lts) ==
    IF Len(lts) = 0 THEN <<>>
    ELSE [v \in 1..Len(lts[1]) |-> [k \in 1..Len(lts) |-> lts[k][v]]]

\* possibleVarDegrees: entry v stands for range(entry v) = 0 .. entry v - 1
possibleVarDegrees(lts) == [v \in DOMAIN Zip(lts) |-> SeqMax(Zip(lts)[v])]

\* itertools.product of the ranges, in its order (last position fastest)
RECURSIVE Product(_)
Product(ranges) ==
    IF Len(ranges) = 0 THEN << <<>> >>
    ELSE LET rest == Product(Tail(ranges))
             RECURSIVE From(_)
             From(d) == IF d >= Head(ranges) THEN <<>>
                        ELSE [k \in 1..Len(rest) |-> <<d>> \o rest[k]] \o From(d + 1)
         IN From(0)

\* the for loop over possibleMonomials, from position k on
RECURSIVE FilterBasis(_, _, _)
FilterBasis(cands, lts, k) ==
    IF k > Len(cands) THEN <<>>
    ELSE LET divisible == \E t \in DOMAIN lts : divides(lts[t], cands[k])
         IN (IF divisible THEN <<>> ELSE <<cands[k]>>) \o FilterBasis(cands, lts, k + 1)

makeVectorBasis(basis) ==
    FilterBasis(Product(possibleVarDegrees(LT_G(basis))), LT_G(basis), 1)

-----------------------------------------------------------------------------
(* Bases handed to the constructor.  All are Groebner bases for the term    *)
(* order: lists of monomials, or f1, f2 with coprime leading terms x^a and  *)
(* y^b, optionally followed by a monomial multiple of f1 or f2.             *)

Mono(m) == [n \in {m} |-> 1]

\* m + c*t
Binom(m, c, t) == [n \in {m, t} |-> IF n = m THEN 1 ELSE c]

F1s == {Mono(<<a, 0>>) : a \in 1..MaxExp}
       \cup {Binom(<<a, 0>>, -1, <<0, 1>>) : a \in 1..MaxExp}

F2s == {Mono(<<0, b>>) : b \in 1..MaxExp}
       \cup {Binom(<<0, b>>, -1, <<0, 0>>) : b \in 1..MaxExp}

Mixed == {Mono(<<a, b>>) : a \in 1..(MaxExp - 1), b \in 1..(MaxExp - 1)}

IsMono(f) == Cardinality(DOMAIN f) = 1

Bases ==
    {<<>>}
    \cup {<<f>> : f \in F1s \cup F2s \cup Mixed}
    \cup {<<f1, f2>> : f1 \in F1s, f2 \in F2s}
    \cup {<<f1, f2, mon_mult(f1, <<0, 1>>)>> : f1 \in F1s, f2 \in F2s}
    \cup {<<f1, f2, mon_mult(f2, <<1, 0>>)>> : f1 \in F1s, f2 \in F2s}
    \cup {<<f1, f2, g>> : f1 \in {f \in F1s : IsMono(f)},
                          f2 \in {f \in F2s : IsMono(f)}, g \in Mixed}

(* Polynomials handed to reduce_poly and coordinateVector: at most two      *)
(* terms; and the multipliers handed to multOperatorMatrix.                  *)

Term(c, m) == [n \in {m} |-> c]

ArgMon == {m \in (0..MaxArgDeg) \X (0..MaxArgDeg) : Deg(m) <= MaxArgDeg}

ArgPolys ==
    {Zero}
    \cup {Term(-1, m) : m \in ArgMon}
    \cup UNION {{Binom(m, 2, t) : t \in {n \in ArgMon : Less(n, m)}} : m \in ArgMon}

MultArgs == {Mono(<<1, 0>>), Mono(<<0, 1>>), Binom(<<1, 0>>, 1, <<0, 1>>)}

-----------------------------------------------------------------------------
(* reduce_poly: one iteration of `for other in self.old_polys`              *)

\* a / b for the exact quotients the model meets
Quot(a, b) == IF b > 0 THEN a \div b ELSE (-a) \div (-b)

\* pad both to the common shape, subtract c * q, snap |.| < 1e-10 to 0
PolySub(p, c, q) ==
    LET raw(m) == Coef(p, m) - c * Coef(q, m)
    IN [m \in {n \in DOMAIN p \cup DOMAIN q : raw(n) # 0} |-> raw(m)]

\* all([i-j >= 0 for i,j in zip(poly.lead_term, other.lead_term)])
LeadDivides(p, other) ==
    \A k \in 1..2 : lead_term(p)[k] - lead_term(other)[k] >= 0

\* lines 150-165: the new coefficients of poly
Eliminate(p, other) ==
    LET monomial == MonSub(lead_term(p), lead_term(other))
        new == mon_mult(other, monomial)
    IN PolySub(p, Quot(lead_coeff(p), lead_coeff(other)), new)

\* other != poly, for other = GB[k] and poly = p, the object GB[a] when a > 0
NotSame(p, a, k) == IF eqByValue THEN GB[k] # p ELSE k # a

\* the iteration for other = GB[k] eliminates the leading term of p
EliminatesIn(p, a, k) ==
    /\ lead_term(p) # None
    /\ lead_term(GB[k]) # None
    /\ NotSame(p, a, k)
    /\ LeadDivides(p, GB[k])

Eliminates(k) == EliminatesIn(poly, alias, k)

WhileEndsAlways(c) == FALSE

\* the condition of `while change`
WhileContinues(c) == c

\* the for loop from position k on, for a working polynomial that is no basis
\* object; c is `change` so far
RECURSIVE ForLoop(_, _, _)
ForLoop(p, k, c) ==
    IF k > Len(GB) THEN [poly |-> p, change |-> c]
    ELSE IF EliminatesIn(p, 0, k) THEN ForLoop(Eliminate(p, GB[k]), k + 1, TRUE)
    ELSE ForLoop(p, k + 1, c)

RECURSIVE WhileLoop(_)
WhileLoop(p) ==
    LET pass == ForLoop(p, 1, FALSE)
    IN IF WhileContinues(pass.change) THEN WhileLoop(pass.poly) ELSE pass.poly

\* Groebner.reduce_poly(p, self.GB): the division loop above run on the basis
Groebner_reduce_poly(p) == WhileLoop(p)

\* getRemainder(p) = self.Groebner.reduce_poly(p, self.GB)
getRemainder(p) == Groebner_reduce_poly(p)

-----------------------------------------------------------------------------
(* coordinateVector                                                         *)

\* a lookup that answers -1 for a missing element: position -1 is the last one
IndexOrLast(s, x) ==
    IF \E k \in DOMAIN s : s[k] = x
    THEN CHOOSE k \in DOMAIN s : s[k] = x /\ \A l \in 1..(k - 1) : s[l] # x
    ELSE Len(s)

\* list.index, 1-based; 0 stands for ValueError
IndexOf(s, x) ==
    IF \E k \in DOMAIN s : s[k] = x
    THEN CHOOSE k \in DOMAIN s : s[k] = x /\ \A l \in 1..(k - 1) : s[l] # x
    ELSE 0

\* the loop storing the leading coefficient for every monomial
RECURSIVE CoordLoopLeadCoeff(_, _, _, _)
CoordLoopLeadCoeff(reducedPoly, terms, k, cv) ==
    IF k > Len(terms) THEN [err |-> "none", vec |-> cv]
    ELSE LET at == IndexOf(vectorBasis, terms[k])
         IN IF at = 0 THEN [err |-> "ValueError", vec |-> <<>>]
            ELSE CoordLoopLeadCoeff(reducedPoly, terms, k + 1,
                                    [cv EXCEPT ![at] = lead_coeff(reducedPoly)])

\* the for loop over reducedPolyTerms from position k on; cv is the vector so far
RECURSIVE CoordLoop(_, _, _, _)
CoordLoop(reducedPoly, terms, k, cv) ==
    IF k > Len(terms) THEN [err |-> "none", vec |-> cv]
    ELSE LET at == IndexOf(vectorBasis, terms[k])
         IN IF at = 0 THEN [err |-> "ValueError", vec |-> <<>>]
            ELSE CoordLoop(reducedPoly, terms, k + 1,
                           [cv EXCEPT ![at] = reducedPoly[terms[k]]])

coordinateVector(reducedPoly) ==
    LET reducedPolyTerms == Reverse(monomialList(reducedPoly))
    IN IF ~(Len(reducedPolyTerms) <= vectorSpaceDimension)
       THEN [err |-> "AssertionError", vec |-> <<>>]
       ELSE CoordLoop(reducedPoly, reducedPolyTerms, 1,
                      [k \in 1..vectorSpaceDimension |-> 0])

-----------------------------------------------------------------------------
(* The state after picking the constructor's argument, and the operations.  *)

ZeroMatrix(dim) == [r \in 1..dim |-> [c \in 1..dim |-> 0]]

\* multOperatorMatrix[:, col] = cv
SetColumn(mat, col, cv) == [r \in DOMAIN mat |-> [mat[r] EXCEPT ![col] = cv[r]]]

Init ==
    /\ GB \in Bases
    /\ eqByValue \in BOOLEAN
    /\ vectorBasis = <<>>
    /\ vectorSpaceDimension = 0
    /\ pc = "new"
    /\ caller = "user"
    /\ arg = Zero
    /\ poly = Zero
    /\ alias = 0
    /\ change = FALSE
    /\ j = 0
    /\ again = FALSE
    /\ prev = Zero
    /\ i = 0
    /\ matrix = <<>>
    /\ cvec = <<>>
    /\ err = "none"
    /\ lastOp = "none"

\* __init__ with a list: self.GB = G, then the vector basis and its length
RootFinderInit ==
    /\ pc = "new"
    /\ vectorBasis' = makeVectorBasis(GB)
    /\ vectorSpaceDimension' = Len(makeVectorBasis(GB))
    /\ pc' = "idle"
    /\ lastOp' = "init"
    /\ UNCHANGED <<GB, eqByValue, caller, arg, poly, alias, change, j, again, prev,
                   i, matrix, cvec, err>>

\* entry of reduce_poly with working polynomial p, the object GB[a] when a > 0
EnterReduce(p, a, who) ==
    /\ poly' = p
    /\ alias' = a
    /\ caller' = who
    /\ change' = FALSE
    /\ j' = 1
    /\ pc' = "reduce"

\* reduce_poly(p) for a polynomial object that is not in the basis list
CallReduce(p) ==
    /\ pc = "idle"
    /\ EnterReduce(p, 0, "user")
    /\ arg' = p
    /\ again' = FALSE
    /\ prev' = Zero
    /\ i' = 0 /\ matrix' = <<>> /\ cvec' = <<>> /\ err' = "none"
    /\ UNCHANGED <<GB, vectorBasis, vectorSpaceDimension, eqByValue, lastOp>>

\* reduce_poly(self.GB[k]): the argument is the basis member itself
CallReduceMember(k) ==
    /\ pc = "idle"
    /\ k \in 1..Len(GB)
    /\ EnterReduce(GB[k], k, "user")
    /\ arg' = GB[k]
    /\ again' = FALSE
    /\ prev' = Zero
    /\ i' = 0 /\ matrix' = <<>> /\ cvec' = <<>> /\ err' = "none"
    /\ UNCHANGED <<GB, vectorBasis, vectorSpaceDimension, eqByValue, lastOp>>

\* reduce_poly(r) for the object r the last reduce_poly call returned
CallReduceAgain ==
    /\ pc = "idle"
    /\ lastOp = "reduce"
    /\ EnterReduce(poly, alias, "user")
    /\ UNCHANGED arg
    /\ again' = TRUE
    /\ prev' = poly
    /\ i' = 0 /\ matrix' = <<>> /\ cvec' = <<>> /\ err' = "none"
    /\ UNCHANGED <<GB, vectorBasis, vectorSpaceDimension, eqByValue, lastOp>>

\* one iteration of the for loop, other = GB[j]
ReduceIter ==
    /\ pc = "reduce"
    /\ j <= Len(GB)
    /\ IF Eliminates(j)
       THEN /\ poly' = Eliminate(poly, GB[j])
            /\ GB' = IF alias > 0 THEN [GB EXCEPT ![alias] = Eliminate(poly, GB[j])]
                     ELSE GB
            /\ change' = TRUE
       ELSE UNCHANGED <<poly, GB, change>>
    /\ j' = j + 1
    /\ UNCHANGED <<vectorBasis, vectorSpaceDimension, eqByValue, pc, caller, arg,
                   alias, again, prev, i, matrix, cvec, err, lastOp>>

\* end of a pass that eliminated: the while loop runs the for loop again
ReducePassAgain ==
    /\ pc = "reduce"
    /\ j > Len(GB)
    /\ WhileContinues(change)
    /\ change' = FALSE
    /\ j' = 1
    /\ UNCHANGED <<GB, vectorBasis, vectorSpaceDimension, eqByValue, pc, caller, arg,
                   poly, alias, again, prev, i, matrix, cvec, err, lastOp>>

\* end of a pass without elimination: return poly to the user
ReduceReturn ==
    /\ pc = "reduce"
    /\ j > Len(GB)
    /\ ~WhileContinues(change)
    /\ caller = "user"
    /\ pc' = "idle"
    /\ lastOp' = "reduce"
    /\ UNCHANGED <<GB, vectorBasis, vectorSpaceDimension, eqByValue, caller, arg,
                   poly, alias, change, j, again, prev, i, matrix, cvec, err>>

\* coordinateVector(p)
CallCoordinateVector(p) ==
    /\ pc = "idle"
    /\ arg' = p
    /\ cvec' = coordinateVector(p).vec
    /\ err' = coordinateVector(p).err
    /\ lastOp' = "coordinateVector"
    /\ poly' = Zero /\ alias' = 0 /\ change' = FALSE /\ j' = 0
    /\ again' = FALSE /\ prev' = Zero /\ i' = 0 /\ matrix' = <<>>
    /\ UNCHANGED <<GB, vectorBasis, vectorSpaceDimension, eqByValue, pc, caller>>

\* multOperatorMatrix(p) up to the first getRemainder call; with dimension 0
\* the for loop is empty and the 0 x 0 matrix is returned.  Left out for the
\* empty basis, whose vector basis holds the empty tuple.
CallMultOperatorMatrix(p) ==
    /\ pc = "idle"
    /\ GB # <<>>
    /\ arg' = p
    /\ matrix' = ZeroMatrix(vectorSpaceDimension)
    /\ again' = FALSE /\ prev' = Zero /\ cvec' = <<>> /\ err' = "none"
    /\ IF vectorSpaceDimension = 0
       THEN /\ lastOp' = "matrix"
            /\ poly' = Zero /\ alias' = 0 /\ change' = FALSE /\ j' = 0 /\ i' = 0
            /\ UNCHANGED <<pc, caller>>
       ELSE /\ i' = 1
            /\ EnterReduce(mon_mult(p, vectorBasis[1]), 0, "matrix")
            /\ UNCHANGED lastOp
    /\ UNCHANGED <<GB, vectorBasis, vectorSpaceDimension, eqByValue>>

\* getRemainder returned and coordinateVector failed: the failure propagates
MatrixColumnFails ==
    /\ pc = "reduce"
    /\ j > Len(GB)
    /\ ~WhileContinues(change)
    /\ caller = "matrix"
    /\ coordinateVector(poly).err # "none"
    /\ err' = coordinateVector(poly).err
    /\ pc' = "idle"
    /\ caller' = "user"
    /\ lastOp' = "matrix"
    /\ UNCHANGED <<GB, vectorBasis, vectorSpaceDimension, eqByValue, arg, poly,
                   alias, change, j, again, prev, i, matrix, cvec>>

\* getRemainder returned: column i is stored, the loop goes on with i + 1
MatrixColumnNext ==
    /\ pc = "reduce"
    /\ j > Len(GB)
    /\ ~WhileContinues(change)
    /\ caller = "matrix"
    /\ coordinateVector(poly).err = "none"
    /\ i < vectorSpaceDimension
    /\ matrix' = SetColumn(matrix, i, coordinateVector(poly).vec)
    /\ i' = i + 1
    /\ EnterReduce(mon_mult(arg, vectorBasis[i + 1]), 0, "matrix")
    /\ UNCHANGED <<GB, vectorBasis, vectorSpaceDimension, eqByValue, arg, again,
                   prev, cvec, err, lastOp>>

\* getRemainder returned: the last column is stored and the matrix returned
MatrixReturn ==
    /\ pc = "reduce"
    /\ j > Len(GB)
    /\ ~WhileContinues(change)
    /\ caller = "matrix"
    /\ coordinateVector(poly).err = "none"
    /\ i = vectorSpaceDimension
    /\ matrix' = SetColumn(matrix, i, coordinateVector(poly).vec)
    /\ pc' = "idle"
    /\ caller' = "user"
    /\ lastOp' = "matrix"
    /\ UNCHANGED <<GB, vectorBasis, vectorSpaceDimension, eqByValue, arg, poly,
                   alias, change, j, again, prev, i, cvec, err>>

Next ==
    \/ RootFinderInit
    \/ \E p \in ArgPolys : CallReduce(p)
    \/ \E k \in 1..3 : CallReduceMember(k)
    \/ CallReduceAgain
    \/ ReduceIter
    \/ ReducePassAgain
    \/ ReduceReturn
    \/ \E p \in ArgPolys : CallCoordinateVector(p)
    \/ \E p \in MultArgs : CallMultOperatorMatrix(p)
    \/ MatrixColumnFails
    \/ MatrixColumnNext
    \/ MatrixReturn

Spec == Init /\ [][Next]_vars

\* a running operation goes on to its next statement
Running == ReduceIter \/ ReducePassAgain \/ ReduceReturn
           \/ MatrixColumnFails \/ MatrixColumnNext \/ MatrixReturn

FairSpec == Spec /\ WF_vars(Running)

\* every division the loop performs is exact
ExactDivision ==
    (pc = "reduce" /\ j <= Len(GB) /\ Eliminates(j)) =>
        Quot(lead_coeff(poly), lead_coeff(GB[j])) * lead_coeff(GB[j]) = lead_coeff(poly)

-----------------------------------------------------------------------------
(* Properties                                                               *)

Range(s) == {s[k] : k \in DOMAIN s}

\* mon1 divides mon2: mon2 is mon1 times a monomial
IsMultiple(mon2, mon1) ==
    \E q \in (0..mon2[1]) \X (0..mon2[2]) : MonAdd(mon1, q) = mon2

\* the leading terms include a pure power of every variable
FiniteQuotient(lts) ==
    \A v \in 1..2 : \E t \in DOMAIN lts :
        lts[t] # None /\ lts[t][v] > 0 /\ \A w \in (1..2) \ {v} : lts[t][w] = 0

\* the monomials no leading term divides, when the quotient is finite: a pure
\* power of exponent at most MaxExp + 1 bounds each exponent
StandardMonomials(lts) ==
    {m \in (0..(MaxExp + 1)) \X (0..(MaxExp + 1)) :
        \A t \in DOMAIN lts : ~IsMultiple(m, lts[t])}

\* the order in which itertools.product yields the candidates
BeforeInProduct(m, n) == m[1] < n[1] \/ (m[1] = n[1] /\ m[2] < n[2])

\* a leading term of the basis divides monomial m
Reducible(m) ==
    \E k \in DOMAIN GB : lead_term(GB[k]) # None /\ IsMultiple(m, lead_term(GB[k]))

Returned(op) == pc = "idle" /\ lastOp = op

\* C1: for a basis whose leading terms include a pure power of every variable,
\* the constructed vector basis lists exactly the monomials no leading term
\* divides, each once, in the order the candidates are generated, and
\* vectorSpaceDimension is their number.
C1_VectorBasisIsStandardMonomials ==
    (Returned("init") /\ FiniteQuotient(LT_G(GB))) =>
        /\ Range(vectorBasis) = StandardMonomials(LT_G(GB))
        /\ \A k, l \in DOMAIN vectorBasis :
              k < l => BeforeInProduct(vectorBasis[k], vectorBasis[l])
        /\ vectorSpaceDimension = Cardinality(StandardMonomials(LT_G(GB)))

C1_Witness ==
    /\ Returned("init")
    /\ LT_G(GB) = << <<2, 0>>, <<0, 2>>, <<1, 1>> >>
    /\ vectorBasis = << <<0, 0>>, <<0, 1>>, <<1, 0>> >>

C5_NonFiniteBasisFails ==
    (Returned("init") /\ ~FiniteQuotient(LT_G(GB))) => err # "none"

\* C6: for a polynomial whose monomials all belong to the vector basis,
\* coordinateVector returns a vector of length vectorSpaceDimension holding,
\* at the position of each vector-basis monomial, the polynomial's coefficient
\* of that monomial (0 when the polynomial does not contain it).
C6_CoordinatesAreCoefficients ==
    (Returned("coordinateVector") /\ DOMAIN arg \subseteq Range(vectorBasis)) =>
        /\ err = "none"
        /\ Len(cvec) = vectorSpaceDimension
        /\ \A k \in 1..vectorSpaceDimension : cvec[k] = Coef(arg, vectorBasis[k])

C6_Witness ==
    /\ Returned("coordinateVector")
    /\ vectorBasis = << <<0, 0>>, <<0, 1>>, <<1, 0>>, <<1, 1>> >>
    /\ arg = Binom(<<1, 1>>, 2, <<1, 0>>)
    /\ cvec = <<0, 0, 2, 1>>

\* C7: for a polynomial with a monomial outside the vector basis,
\* coordinateVector ends in a failure and returns no vector.
C7_OutOfBasisFails ==
    (Returned("coordinateVector") /\ ~(DOMAIN arg \subseteq Range(vectorBasis))) =>
        err \in {"AssertionError", "ValueError"} /\ cvec = <<>>

C7_Witness ==
    /\ Returned("coordinateVector")
    /\ Cardinality(DOMAIN arg) = 2
    /\ vectorSpaceDimension >= 2
    /\ \E m \in DOMAIN arg : m \in Range(vectorBasis)
    /\ \E m \in DOMAIN arg : m \notin Range(vectorBasis)
    /\ err = "ValueError"

EliminationDecreasesLead ==
    [][(pc = "reduce" /\ j <= Len(GB) /\ poly' # poly) =>
          (poly' = Zero \/ Less(lead_term(poly'), lead_term(poly)))]_vars

\* every call of the division loop returns
ReduceTerminates == (pc = "reduce") ~> (pc = "idle")

\* the matrix loop and getRemainder agree on every column the loop stored
StoredColumnsAreRemainders ==
    (pc = "reduce" /\ caller = "matrix") =>
        \A c \in 1..(i - 1) :
            LET col == coordinateVector(getRemainder(mon_mult(arg, vectorBasis[c])))
            IN col.err = "none" /\ \A r \in 1..vectorSpaceDimension : matrix[r][c] = col.vec[r]

=============================================================================
